---- MODULE Spec2Model ----
(***************************************************************************)
(* Quiz session lifecycle, answer parsing and grading of MwalimuAi.        *)
(*                                                                         *)
(* Two session stores exist in the repository:                             *)
(*   - the atomic store of the server module (createQuizSession,           *)
(*     getActiveQuizSession, gradeQuizAnswers), variable quizSessions;     *)
(*   - the incremental store of whatsapp/whatsappHandler.js (startQuiz,    *)
(*     answerQuiz), variable waQuizSessions.                               *)
(*                                                                         *)
(* Specifications:                                                         *)
(*   Spec        session lifecycle of the atomic store under a wall clock  *)
(*   SpecGrade   gradeQuizAnswers over all keys and submissions            *)
(*   SpecParse   parseQuizAnswers over all short texts                     *)
(*   SpecHandler whatsappWebhookHandler requests interleaved at awaits     *)
(*   SpecCreate  session creation in both stores                           *)
(*   SpecKey     answer keys of the sessions stored from generated texts   *)
(*   SpecAnswer  startQuiz and answerQuiz under a wall clock               *)
(*   SpecServer  requests to the server module's webhook                   *)
(*   SpecHandlerLive  SpecHandler with the awaited calls that settle       *)
(***************************************************************************)
EXTENDS Integers, Sequences, FiniteSets, TLC

VARIABLES
    now,             \* the value Date.now() returns
    quizSessions,    \* atomic store: phone -> session or Null
    last,            \* history: the last call, its arguments and its result
    message,         \* the text handed to the function under test
    parsed,          \* SpecParse: what parseQuizAnswers returned for it
    waQuizSessions,  \* incremental store: phone -> session or Null
    reqs,            \* the webhook requests in flight
    nextId,          \* history: number of sessions startQuiz has stored
    consumed,        \* history: session id -> times answerQuiz finished it
    startedAt,       \* history: session id -> clock value when startQuiz stored it
    ended            \* history: phone -> how its last atomic session ended

vars == <<now, quizSessions, last, ended, message, parsed, waQuizSessions, reqs,
          nextId, consumed, startedAt>>

storeVars   == <<now, quizSessions, last, ended>>
parseVars   == <<message, parsed>>
handlerVars == <<waQuizSessions, reqs, nextId, consumed, startedAt>>

----------------------------------------------------------------------------
(* Bounds *)

MaxQ == 3          \* longest answer key / submission enumerated in SpecGrade
HalfLen == 8       \* length of the one long key of SpecGrade
MaxLen == 4        \* longest text enumerated in SpecParse
MaxReqs == 3       \* webhook requests handled in SpecHandler

----------------------------------------------------------------------------
(* Values *)

Null == [null |-> TRUE]

Owners == {"+254700000001", "+254700000002"}
Senders == {"whatsapp:+254700000001", "whatsapp:+254700000002"}
Subjects == {"Math", "Science"}
QuizTexts == {"quizText"}

TTL == 30 * 60 * 1000

SeqsUpTo(S, n) == UNION {[1..k -> S] : k \in 0..n}

Range(s) == {s[i] : i \in 1..Len(s)}

(* String.prototype.toUpperCase on one character of the modelled alphabet. *)
ToUpperCase(c) ==
    CASE c = "a" -> "A"
      [] c = "b" -> "B"
      [] c = "c" -> "C"
      [] c = "d" -> "D"
      [] c = "n" -> "N"
      [] OTHER -> c

----------------------------------------------------------------------------
(* The atomic store: createQuizSession / getActiveQuizSession /            *)
(* gradeQuizAnswers                                                        *)

(* The object createQuizSession stores; t1 and t2 are its two Date.now()   *)
(* readings.                                                               *)
(* Faulty variant: an existing entry is updated in place, keeping its key  *)
(* and expiry.                                                             *)
NewSessionKeepingOld(old, subject, quizText, correctAnswers, t1, t2) ==
    IF old = Null
    THEN [subject |-> subject, quizText |-> quizText,
          correctAnswers |-> correctAnswers,
          createdAt |-> t1, expiresAt |-> t2 + TTL]
    ELSE [old EXCEPT !.subject = subject, !.quizText = quizText]

(* createQuizSession as written: a fresh object. *)
NewSession(old, subject, quizText, correctAnswers, t1, t2) ==
    [subject |-> subject, quizText |-> quizText,
     correctAnswers |-> correctAnswers,
     createdAt |-> t1, expiresAt |-> t2 + TTL]

(* The expiry test of getActiveQuizSession. *)
(* Faulty variant: expired already at the instant expiresAt. *)
IsExpiredAtBoundary(session, t) == t >= session.expiresAt

(* As written: Date.now() > session.expiresAt. *)
IsExpired(session, t) == t > session.expiresAt

(* getActiveQuizSession(phone) at clock value t: the returned value and    *)
(* the store it leaves.                                                    *)
(* Faulty variant: the expired record is left in the store. *)
GetActiveNoEvict(store, phone, t) ==
    LET session == store[phone] IN
    IF session = Null THEN [ret |-> Null, store |-> store]
    ELSE IF IsExpired(session, t) THEN [ret |-> Null, store |-> store]
    ELSE [ret |-> session, store |-> store]

(* As written. *)
GetActive(store, phone, t) ==
    LET session == store[phone] IN
    IF session = Null THEN [ret |-> Null, store |-> store]
    ELSE IF IsExpired(session, t)
         THEN [ret |-> Null, store |-> [store EXCEPT ![phone] = Null]]
    ELSE [ret |-> session, store |-> store]

(* The comparison of one submitted answer with one key letter. *)
(* Faulty variant: compared without upper-casing. *)
IsCorrectCaseSensitive(answer, key) == answer = key

(* As written. *)
IsCorrect(answer, key) == ToUpperCase(answer) = ToUpperCase(key)

(* The forEach loop of gradeQuizAnswers; index is 1-based here. *)
RECURSIVE GradeLoop(_, _, _, _, _)
GradeLoop(userAnswers, correctAnswers, index, correctCount, results) ==
    IF index > Len(userAnswers)
    THEN [correctCount |-> correctCount, results |-> results]
    ELSE LET isCorrect == IsCorrect(userAnswers[index], correctAnswers[index])
         IN GradeLoop(userAnswers, correctAnswers, index + 1,
                      IF isCorrect THEN correctCount + 1 ELSE correctCount,
                      Append(results,
                             [questionNumber |-> index,
                              userAnswer |-> ToUpperCase(userAnswers[index]),
                              correctAnswer |-> ToUpperCase(correctAnswers[index]),
                              isCorrect |-> isCorrect]))

(* Math.round((correctCount / total) * 100) for 0 <= correctCount <= total. *)
(* Faulty variant: Math.floor in place of Math.round. *)
ScoreTruncated(correctCount, total) == (100 * correctCount) \div total

(* As written. *)
Score(correctCount, total) == (200 * correctCount + total) \div (2 * total)

NoActiveQuiz == [success |-> FALSE, message |-> [text |-> "No active quiz found"]]

ProvideAnswers(n) ==
    [success |-> FALSE, message |-> [text |-> "Please provide n answers", n |-> n]]

(* The store gradeQuizAnswers leaves after a complete grading pass. *)
(* Faulty variant: the delete is missing. *)
AfterGradingKept(store, phone) == store

(* As written. *)
AfterGrading(store, phone) == [store EXCEPT ![phone] = Null]

(* What gradeQuizAnswers does when the submission's length differs. *)
(* Faulty variant: the answers that are there are graded, and the session  *)
(* consumed.                                                               *)
OnCountMismatchPartial(store, session, phone, userAnswers) ==
    LET n == IF Len(userAnswers) < Len(session.correctAnswers)
             THEN Len(userAnswers) ELSE Len(session.correctAnswers)
        g == GradeLoop(SubSeq(userAnswers, 1, n), session.correctAnswers, 1, 0, <<>>)
    IN [ret |-> [success |-> TRUE,
                 score |-> Score(g.correctCount, Len(session.correctAnswers)),
                 correctCount |-> g.correctCount,
                 totalQuestions |-> Len(session.correctAnswers),
                 results |-> g.results,
                 subject |-> session.subject],
        store |-> AfterGrading(store, phone)]

(* As written: the failure, and nothing else. *)
OnCountMismatch(store, session, phone, userAnswers) ==
    [ret |-> ProvideAnswers(Len(session.correctAnswers)), store |-> store]

(* gradeQuizAnswers(phone, userAnswers) at clock value t. *)
Grade(store, phone, userAnswers, t) ==
    LET got == GetActive(store, phone, t)
        session == got.ret
    IN IF session = Null
       THEN [ret |-> NoActiveQuiz, store |-> got.store]
       ELSE IF Len(userAnswers) # Len(session.correctAnswers)
       THEN OnCountMismatch(got.store, session, phone, userAnswers)
       ELSE LET g == GradeLoop(userAnswers, session.correctAnswers, 1, 0, <<>>)
            IN [ret |-> [success |-> TRUE,
                         score |-> Score(g.correctCount, Len(session.correctAnswers)),
                         correctCount |-> g.correctCount,
                         totalQuestions |-> Len(session.correctAnswers),
                         results |-> g.results,
                         subject |-> session.subject],
                store |-> AfterGrading(got.store, phone)]

----------------------------------------------------------------------------
(* Spec: the atomic store driven by any sequence of calls, under a wall    *)
(* clock that the environment moves (forward, or back on adjustment).      *)

Instants == {0, TTL - 1000, TTL, TTL + 1000}

KeyLetters == {"A", "b"}
AnswerLetters == {"A", "a", "B"}

StoreKeys == {<<"A">>, <<"b", "A">>}
StoreAnswers == {<<>>, <<"a">>, <<"B", "A">>, <<"B", "B">>}

(* Date.now() may advance between the two readings of createQuizSession. *)
CreateSkew == {0, 1}

(* The clock values of the model: an instant, or one millisecond after it. *)
ClockValues == Instants \cup {t + 1 : t \in Instants}

InitStore ==
    /\ now = 0
    /\ quizSessions = [p \in Owners |-> Null]
    /\ last = [op |-> "none"]
    /\ ended = [p \in Owners |-> "no"]

InitParseIdle ==
    /\ message = <<>>
    /\ parsed = <<>>

InitHandlerIdle ==
    /\ waQuizSessions = [p \in Senders |-> Null]
    /\ reqs = [r \in 1..MaxReqs |-> [pc |-> "idle"]]
    /\ nextId = 0
    /\ consumed = [id \in 1..MaxReqs |-> 0]
    /\ startedAt = [id \in 1..MaxReqs |-> 0]

Init == InitStore /\ InitParseIdle /\ InitHandlerIdle

CreateQuizSession(phone, subject, quizText, correctAnswers, skew) ==
    /\ now + skew \in ClockValues
    /\ quizSessions' = [quizSessions EXCEPT ![phone] =
           NewSession(quizSessions[phone], subject, quizText, correctAnswers,
                      now, now + skew)]
    /\ now' = now + skew
    /\ last' = [op |-> "createQuizSession", phone |-> phone, subject |-> subject,
                quizText |-> quizText, correctAnswers |-> correctAnswers,
                at |-> now, at2 |-> now + skew,
                replaced |-> /\ quizSessions[phone] # Null
                             /\ quizSessions[phone].subject # subject
                             /\ quizSessions[phone].correctAnswers # correctAnswers
                             /\ quizSessions[phone].expiresAt # now + skew + TTL]
    /\ ended' = [ended EXCEPT ![phone] = "no"]

GetActiveQuizSession(phone) ==
    LET got == GetActive(quizSessions, phone, now) IN
    /\ quizSessions' = got.store
    /\ last' = [op |-> "getActiveQuizSession", phone |-> phone, at |-> now,
                pre |-> quizSessions[phone], was |-> ended[phone], ret |-> got.ret]
    /\ ended' = IF quizSessions[phone] # Null /\ got.store[phone] = Null
                THEN [ended EXCEPT ![phone] = "evicted"] ELSE ended
    /\ UNCHANGED now

GradeQuizAnswers(phone, userAnswers) ==
    LET g == Grade(quizSessions, phone, userAnswers, now) IN
    /\ quizSessions' = g.store
    /\ last' = [op |-> "gradeQuizAnswers", phone |-> phone, at |-> now,
                userAnswers |-> userAnswers,
                pre |-> quizSessions[phone], was |-> ended[phone], ret |-> g.ret]
    /\ ended' = IF g.ret.success THEN [ended EXCEPT ![phone] = "graded"]
                ELSE IF quizSessions[phone] # Null /\ g.store[phone] = Null
                THEN [ended EXCEPT ![phone] = "evicted"]
                ELSE ended
    /\ UNCHANGED now

ClockForward ==
    /\ \E t \in Instants : t > now /\ now' = t
    /\ last' = [op |-> "clock"]
    /\ UNCHANGED <<quizSessions, ended>>

ClockBackward ==
    /\ \E t \in Instants : t < now /\ now' = t
    /\ last' = [op |-> "clock"]
    /\ UNCHANGED <<quizSessions, ended>>

Next ==
    \/ /\ \E phone \in Owners, subject \in Subjects, quizText \in QuizTexts,
              correctAnswers \in StoreKeys, skew \in CreateSkew :
              CreateQuizSession(phone, subject, quizText, correctAnswers, skew)
       /\ UNCHANGED <<parseVars, handlerVars>>
    \/ /\ \E phone \in Owners : GetActiveQuizSession(phone)
       /\ UNCHANGED <<parseVars, handlerVars>>
    \/ /\ \E phone \in Owners, userAnswers \in StoreAnswers :
              GradeQuizAnswers(phone, userAnswers)
       /\ UNCHANGED <<parseVars, handlerVars>>
    \/ /\ ClockForward
       /\ UNCHANGED <<parseVars, handlerVars>>
    \/ /\ ClockBackward
       /\ UNCHANGED <<parseVars, handlerVars>>

Spec == Init /\ [][Next]_vars

----------------------------------------------------------------------------
(* Claims on the atomic store, checked under Spec *)

IsGet == last.op = "getActiveQuizSession"
IsGrade == last.op = "gradeQuizAnswers"

(* C1: single-use grading. Once gradeQuizAnswers has returned success for  *)
(* an owner, the owner's session is absent from the store, and a further   *)
(* gradeQuizAnswers for that owner with no create in between returns the   *)
(* no-active-quiz failure: success = FALSE and no score.                   *)
C1_SingleUseGrading ==
    /\ \A p \in Owners : ended[p] = "graded" => quizSessions[p] = Null
    /\ (IsGrade /\ last.ret.success) => quizSessions[last.phone] = Null
    /\ (IsGrade /\ last.was = "graded") =>
          /\ last.ret = NoActiveQuiz
          /\ ~last.ret.success
          /\ "score" \notin DOMAIN last.ret

C1_Witness == IsGrade /\ last.was = "graded" /\ last.userAnswers = <<"a">>

(* C2 as stated: a stored session is returned by getActiveQuizSession if   *)
(* and only if now < expiresAt, and is absent for every now >= expiresAt,  *)
(* the instant now = expiresAt included.                                   *)
C2_VisibleIffBeforeExpiry ==
    (IsGet /\ last.pre # Null) =>
        /\ last.ret \in {Null, last.pre}
        /\ (last.ret = last.pre) <=> (last.at < last.pre.expiresAt)

(* C2 amended: a stored session is returned by getActiveQuizSession if and *)
(* only if now <= expiresAt; at now = expiresAt it is still returned, and  *)
(* it is absent for every now > expiresAt. A session created at t0 with    *)
(* expiresAt = t0 + 30 minutes is visible at t0 + 29m59s and absent at     *)
(* t0 + 30m01s.                                                            *)
C2_VisibleUntilExpiryInclusive ==
    (IsGet /\ last.pre # Null) =>
        /\ last.ret \in {Null, last.pre}
        /\ (last.ret = last.pre) <=> (last.at <= last.pre.expiresAt)
        /\ (last.pre.expiresAt = last.pre.createdAt + TTL) =>
              /\ (last.at = last.pre.createdAt + TTL - 1000) => last.ret = last.pre
              /\ (last.at = last.pre.createdAt + TTL + 1000) => last.ret = Null

C2_Witness ==
    /\ IsGet /\ last.pre # Null
    /\ last.pre.expiresAt = last.pre.createdAt + TTL
    /\ last.at = last.pre.expiresAt
    /\ last.ret = last.pre

(* C3: read-time eviction. When getActiveQuizSession returns absent for a  *)
(* stored, expired session, the record is gone from the store; until a new *)
(* create for that owner, every lookup returns absent and every grading    *)
(* call returns the no-active-quiz failure, whatever the clock reads.      *)
C3_ReadTimeEviction ==
    /\ (IsGet /\ last.pre # Null /\ last.ret = Null) =>
          quizSessions[last.phone] = Null
    /\ \A p \in Owners : ended[p] = "evicted" => quizSessions[p] = Null
    /\ (IsGet /\ last.was = "evicted") => last.ret = Null
    /\ (IsGrade /\ last.was = "evicted") => last.ret = NoActiveQuiz

(* A lookup after the eviction, with the clock set back before any expiry. *)
C3_Witness == IsGet /\ last.was = "evicted" /\ last.at = 0 /\ last.ret = Null

(* C5: count mismatch is all-or-nothing. gradeQuizAnswers for an owner     *)
(* with an active session and a submission whose length differs from the   *)
(* key's returns a failure naming the expected count, with no score and no *)
(* per-question result, and leaves the stored session unchanged.           *)
C5_CountMismatch ==
    (/\ IsGrade /\ last.pre # Null
     /\ ~IsExpired(last.pre, last.at)
     /\ Len(last.userAnswers) # Len(last.pre.correctAnswers)) =>
        /\ ~last.ret.success
        /\ last.ret.message.n = Len(last.pre.correctAnswers)
        /\ DOMAIN last.ret = {"success", "message"}
        /\ quizSessions[last.phone] = last.pre

C5_Witness ==
    /\ IsGrade /\ last.pre # Null
    /\ last.userAnswers = <<"a">>
    /\ last.ret = ProvideAnswers(2)
    /\ quizSessions[last.phone] = last.pre

----------------------------------------------------------------------------
(* SpecGrade: gradeQuizAnswers for one owner over every key of one to MaxQ *)
(* letters and every submission of up to MaxQ letters, plus one key of     *)
(* HalfLen letters graded against submissions with 0..HalfLen right.       *)

GradeOwner == "+254700000001"

LongKey == [i \in 1..HalfLen |-> "A"]
LongAnswers == {[i \in 1..HalfLen |-> IF i <= k THEN "a" ELSE "B"] : k \in 0..HalfLen}

GradeKeys == (SeqsUpTo(KeyLetters, MaxQ) \ {<<>>}) \cup {LongKey}
GradeAnswers == SeqsUpTo(AnswerLetters, MaxQ) \cup LongAnswers

NextGrade ==
    \/ /\ \E correctAnswers \in GradeKeys :
              CreateQuizSession(GradeOwner, "Math", "quizText", correctAnswers, 0)
       /\ UNCHANGED <<parseVars, handlerVars>>
    \/ /\ \E userAnswers \in GradeAnswers :
              GradeQuizAnswers(GradeOwner, userAnswers)
       /\ UNCHANGED <<parseVars, handlerVars>>

SpecGrade == Init /\ [][NextGrade]_vars

(* The indices at which the upper-cased answer equals the upper-cased key. *)
MatchingIndices(userAnswers, correctAnswers) ==
    {i \in 1..Len(correctAnswers) :
        ToUpperCase(userAnswers[i]) = ToUpperCase(correctAnswers[i])}

(* C6: for a submission as long as the key of the owner's active session,  *)
(* gradeQuizAnswers succeeds, correctCount is the number of indices where  *)
(* the upper-cased answer equals the upper-cased key letter, and the       *)
(* isCorrect flags are true at exactly those indices.                      *)
C6_CorrectCount ==
    (/\ IsGrade /\ last.pre # Null
     /\ ~IsExpired(last.pre, last.at)
     /\ Len(last.userAnswers) = Len(last.pre.correctAnswers)) =>
        LET hits == MatchingIndices(last.userAnswers, last.pre.correctAnswers) IN
        /\ last.ret.success
        /\ last.ret.correctCount = Cardinality(hits)
        /\ last.ret.totalQuestions = Len(last.pre.correctAnswers)
        /\ Len(last.ret.results) = Len(last.pre.correctAnswers)
        /\ \A i \in 1..Len(last.ret.results) :
              /\ last.ret.results[i].isCorrect <=> i \in hits
              /\ last.ret.results[i].questionNumber = i

(* A lower-case answer counted against an upper-case key letter, and an    *)
(* upper-case answer against a lower-case key letter, with one miss.       *)
C6_Witness ==
    /\ IsGrade /\ last.pre # Null
    /\ last.pre.correctAnswers = <<"A", "b", "A">>
    /\ last.userAnswers = <<"a", "B", "B">>
    /\ last.ret.success
    /\ last.ret.correctCount = 2

C7_HalfWitness ==
    /\ IsGrade /\ last.ret.success
    /\ 200 * last.ret.correctCount = last.ret.totalQuestions * (2 * last.ret.score - 1)

----------------------------------------------------------------------------
(* parseQuizAnswers. A text is a sequence of characters.                   *)

Digits == {"1", "2", "3"}
LettersAD == {"A", "B", "C", "D"}
Whitespace == {" "}

IsDigit(c) == c \in Digits
IsAD(c) == c \in LettersAD

(* String.prototype.toLowerCase on one character of the modelled alphabet. *)
ToLowerCase(c) ==
    CASE c = "A" -> "a"
      [] c = "B" -> "b"
      [] c = "C" -> "c"
      [] c = "D" -> "d"
      [] c = "N" -> "n"
      [] c = "Quiz" -> "quiz"
      [] c = "Correct answers" -> "correct answers"
      [] OTHER -> c

(* message.toLowerCase() *)
LowerText(text) == [i \in 1..Len(text) |-> ToLowerCase(text[i])]

(* message.toUpperCase() *)
UpperText(text) == [i \in 1..Len(text) |-> ToUpperCase(text[i])]

(* String.prototype.trim *)
RECURSIVE TrimStart(_)
TrimStart(text) ==
    IF text # <<>> /\ Head(text) \in Whitespace THEN TrimStart(Tail(text)) ELSE text

RECURSIVE TrimEnd(_)
TrimEnd(text) ==
    IF text # <<>> /\ text[Len(text)] \in Whitespace
    THEN TrimEnd(SubSeq(text, 1, Len(text) - 1)) ELSE text

Trim(text) == TrimEnd(TrimStart(text))

(* The index after the run of digits that starts at i: the greedy \d+. *)
RECURSIVE DigitRunEnd(_, _)
DigitRunEnd(msg, i) ==
    IF i <= Len(msg) /\ IsDigit(msg[i]) THEN DigitRunEnd(msg, i + 1) ELSE i

(* [...msg.matchAll(/\d+([A-D])/g)].map(m => m[1]), scanning from index i. *)
RECURSIVE MatchNumbered(_, _)
MatchNumbered(msg, i) ==
    IF i > Len(msg) THEN <<>>
    ELSE IF IsDigit(msg[i])
         THEN LET j == DigitRunEnd(msg, i) IN
              IF j <= Len(msg) /\ IsAD(msg[j])
              THEN <<msg[j]>> \o MatchNumbered(msg, j + 1)
              ELSE MatchNumbered(msg, i + 1)
    ELSE MatchNumbered(msg, i + 1)

(* msg.match(/[A-D]/g), with no match given as the empty sequence. *)
MatchLetters(msg) == SelectSeq(msg, IsAD)

(* Faulty variant: the text is matched without upper-casing it. *)
ParseCaseSensitive(text) ==
    LET msg == Trim(text)
        numbered == MatchNumbered(msg, 1)
        letters == MatchLetters(msg)
    IN IF Len(numbered) > 0 THEN numbered
       ELSE IF Len(letters) >= 2 THEN letters
       ELSE <<>>

(* Faulty variant: the bare-letter pattern is tried first. *)
ParseBareFirst(text) ==
    LET msg == Trim(UpperText(text))
        letters == MatchLetters(msg)
    IN IF Len(letters) >= 2 THEN letters ELSE MatchNumbered(msg, 1)

(* parseQuizAnswers as written. *)
ParseQuizAnswers(text) ==
    LET msg == Trim(UpperText(text))
        numbered == MatchNumbered(msg, 1)
        letters == MatchLetters(msg)
    IN IF Len(numbered) > 0 THEN numbered
       ELSE IF Len(letters) >= 2 THEN letters
       ELSE <<>>

----------------------------------------------------------------------------
(* SpecParse: parseQuizAnswers applied to every text of up to MaxLen       *)
(* characters and to the reply texts the documentation quotes.             *)

Chars == {"A", "B", "a", "c", "n", "1", "2", " ", ",", "-"}

QuotedTexts ==
    { <<"1", "A", " ", "2", "C", " ", "3", "B">>,
      <<"A", " ", "C", " ", "B">>,
      <<"a", ",", " ", "c", ",", " ", "b">>,
      <<"1", "-", "A", ",", " ", "2", "-", "C">>,
      <<"b", "a", "n", "a", "n", "a">>,
      <<"A", " ", "B", " ", "C", " ", "D", " ", "A", " ", "B">> }

Messages == SeqsUpTo(Chars, MaxLen) \cup QuotedTexts

Pending == <<"pending">>

InitParse ==
    /\ InitStore /\ InitHandlerIdle
    /\ message \in Messages
    /\ parsed = Pending

ParseQuizAnswersCall ==
    /\ parsed = Pending
    /\ parsed' = ParseQuizAnswers(message)
    /\ UNCHANGED <<message, storeVars, handlerVars>>

NextParse == ParseQuizAnswersCall

SpecParse == InitParse /\ [][NextParse]_vars

(* The letters of the numbered occurrences of a text: the positions whose  *)
(* character is a letter of A-D, in either case, right after a digit.      *)
RECURSIVE LettersAfterDigit(_, _)
LettersAfterDigit(text, j) ==
    IF j > Len(text) THEN <<>>
    ELSE IF j >= 2 /\ IsDigit(text[j - 1]) /\ IsAD(ToUpperCase(text[j]))
         THEN <<ToUpperCase(text[j])>> \o LettersAfterDigit(text, j + 1)
    ELSE LettersAfterDigit(text, j + 1)

Separators == Whitespace \cup {","}

(* The text is made of separators and letters of A-D (either case) only,   *)
(* no two letters adjacent, with two to five letters in all.               *)
IsBareLetterForm(text) ==
    LET letterAt == {i \in 1..Len(text) : IsAD(ToUpperCase(text[i]))} IN
    /\ \A i \in 1..Len(text) : i \in letterAt \/ text[i] \in Separators
    /\ \A i \in letterAt : (i + 1) \notin letterAt
    /\ Cardinality(letterAt) \in 2..5

(* C9: for a text with no numbered pair, parseQuizAnswers returns a        *)
(* non-empty result only if the text is two to five standalone letters of  *)
(* A-D separated by whitespace and/or commas; for any other such text      *)
(* (one letter, more than five, letters inside words) it returns empty.    *)
C9_BareLetterFormOnly ==
    (parsed # Pending /\ LettersAfterDigit(message, 1) = <<>>) =>
        (parsed # <<>> => IsBareLetterForm(message))

(* C10: the numbered form has priority. If the text holds a digit sequence *)
(* immediately followed by a letter of A-D, parseQuizAnswers returns       *)
(* exactly the letters of those occurrences, left to right, and no bare    *)
(* letter; only a text with no such occurrence is read as bare letters.    *)
C10_NumberedFirst ==
    (parsed # Pending) =>
        LET numbered == LettersAfterDigit(message, 1) IN
        /\ numbered # <<>> => parsed = numbered
        /\ numbered = <<>> =>
              parsed \in {<<>>, SelectSeq(UpperText(message), IsAD)}

(* A numbered pair next to bare letters: only the pair's letter is kept.   *)
C10_Witness ==
    /\ message = <<"B", "1", "a", "c">>
    /\ parsed = <<"A">>

(* C11: parseQuizAnswers is case-insensitive and normalizes its output.     *)
(* The result for a text equals the result for its lower-cased form and    *)
(* for its upper-cased form, and every element of the result is one        *)
(* upper-case letter of A-D.                                               *)
C11_CaseInsensitive ==
    (parsed # Pending) =>
        /\ parsed = ParseQuizAnswers(LowerText(message))
        /\ parsed = ParseQuizAnswers(UpperText(message))
        /\ \A i \in 1..Len(parsed) : parsed[i] \in LettersAD

(* A lower-case bare-letter reply, returned as upper-case letters. *)
C11_Witness ==
    /\ message = <<"a", ",", " ", "c", ",", " ", "b">>
    /\ parsed = <<"A", "C", "B">>
    /\ LowerText(message) = message
    /\ UpperText(message) # message

----------------------------------------------------------------------------
(* whatsapp/whatsappHandler.js: the incremental store, startQuiz,          *)
(* answerQuiz and whatsappWebhookHandler.                                  *)
(*                                                                         *)
(* A generated quiz text is given as its blocks, the pieces that follow    *)
(* each "Question N: " delimiter; a block is given by its lines that start *)
(* with "correct answers", each the letters of its digit-letter pairs.     *)
(* A message body is a sequence of characters and words.                   *)

Block(answerLines) == [answerLines |-> answerLines]

(* The text generateQuiz returns when the generation call fails. *)
FallbackQuizText == <<Block(<<>>), Block(<<>>), Block(<<>>)>>

(* What the generation call of generateQuiz did: it returned a text, or it *)
(* failed (a rejected promise, a thrown error).                            *)
GenerationFailed == [ok |-> FALSE]

Generated(text) == [ok |-> TRUE, text |-> text]

(* generateQuiz(subject), given what its generation call did. *)
(* Faulty variant: an empty text when the call fails. *)
GenerateQuizEmptyOnFailure(outcome) ==
    IF outcome.ok THEN outcome.text ELSE <<>>

(* As written: the catch returns the fixed text. *)
GenerateQuiz(outcome) ==
    IF outcome.ok THEN outcome.text ELSE FallbackQuizText

(* The lines of a text that start with "correct answers", in order. *)
RECURSIVE AnswerLinesOf(_)
AnswerLinesOf(quizText) ==
    IF quizText = <<>> THEN <<>>
    ELSE Head(quizText).answerLines \o AnswerLinesOf(Tail(quizText))

(* extractCorrectAnswers(quizText): the letters, upper-cased, of the first *)
(* "CORRECT ANSWERS" that a list of digit-letter pairs follows; [] when    *)
(* the text has none.                                                      *)
ExtractCorrectAnswers(quizText) ==
    LET withPairs == SelectSeq(AnswerLinesOf(quizText), LAMBDA l : l # <<>>)
    IN IF withPairs = <<>> THEN <<>>
       ELSE [i \in 1..Len(withPairs[1]) |-> ToUpperCase(withPairs[1][i])]

(* Faulty variant: the letter of the last pair of the line. *)
CorrectAnswerOfLastPair(block) ==
    IF block.answerLines = <<>> \/ block.answerLines[1] = <<>>
    THEN "A"
    ELSE ToUpperCase(block.answerLines[1][Len(block.answerLines[1])])

(* answerLine.match(/(\d)-([A-D])/gi), first match, letter upper-cased;   *)
(* 'A' when the block has no such line or its first such line no pair.     *)
CorrectAnswerOf(block) ==
    IF block.answerLines = <<>> \/ block.answerLines[1] = <<>>
    THEN "A"
    ELSE ToUpperCase(block.answerLines[1][1])

(* quizText.split(/Question \d+: /).slice(1).map(...) *)
QuestionsOf(quizText) ==
    [i \in 1..Len(quizText) |-> [q |-> i, answer |-> CorrectAnswerOf(quizText[i])]]

(* The object startQuiz stores; id is a history field naming the session. *)
(* Faulty variant: an existing entry is updated in place, keeping its       *)
(* answersGiven.                                                           *)
StartedSessionMerged(old, subject, questions, id) ==
    IF old = Null
    THEN [subject |-> subject, questions |-> questions, answersGiven |-> <<>>, id |-> id]
    ELSE [old EXCEPT !.subject = subject, !.questions = questions, !.id = id]

(* As written: a fresh object. *)
StartedSession(old, subject, questions, id) ==
    [subject |-> subject, questions |-> questions, answersGiven |-> <<>>, id |-> id]

(* extractSubject(message) *)
ExtractSubject(body) ==
    IF "math" \in Range(body) THEN "Math"
    ELSE IF "science" \in Range(body) THEN "Science"
    ELSE "Mathematics"

(* The store answerQuiz leaves when the last question has been answered. *)
(* Faulty variant: the delete is missing. *)
AfterFinishKept(store, phone, answersGiven) ==
    [store EXCEPT ![phone].answersGiven = answersGiven]

(* Faulty variant: every sender's session is deleted. *)
AfterFinishClearsAll(store, phone, answersGiven) == [p \in DOMAIN store |-> Null]

(* As written. *)
AfterFinish(store, phone, answersGiven) == [store EXCEPT ![phone] = Null]

(* answerQuiz(phoneNumber, answer): threw is the TypeError of reading      *)
(* .answer of a question that does not exist. The field judged of an entry *)
(* of answersGiven is history: the isCorrect its feedback was built from.  *)
AnswerQuiz(store, phone, answer) ==
    LET session == store[phone] IN
    IF session = Null
    THEN [threw |-> FALSE, store |-> store, finished |-> TRUE,
          message |-> [kind |-> "No active quiz found"]]
    ELSE LET currentIndex == Len(session.answersGiven) + 1 IN
         IF currentIndex > Len(session.questions)
         THEN [threw |-> TRUE, store |-> store]
         ELSE LET currentQuestion == session.questions[currentIndex]
                  isCorrect == Trim(UpperText(answer)) =
                                   <<ToUpperCase(currentQuestion.answer)>>
                  answersGiven == Append(session.answersGiven,
                                         [given |-> answer,
                                          correct |-> currentQuestion.answer,
                                          judged |-> isCorrect])
                  finished == Len(answersGiven) = Len(session.questions)
                  totalCorrect == Cardinality(
                      {i \in 1..Len(answersGiven) :
                          UpperText(answersGiven[i].given) =
                              <<ToUpperCase(answersGiven[i].correct)>>})
              IN IF finished
                 THEN [threw |-> FALSE,
                       store |-> AfterFinish(store, phone, answersGiven),
                       finished |-> TRUE,
                       isCorrect |-> isCorrect, totalCorrect |-> totalCorrect,
                       message |-> [kind |-> "feedback and score"]]
                 ELSE [threw |-> FALSE,
                       store |-> [store EXCEPT ![phone].answersGiven = answersGiven],
                       finished |-> FALSE,
                       isCorrect |-> isCorrect,
                       message |-> [kind |-> "feedback"]]

Retries == 2

(* whatsappWebhookHandler up to its first await: the live-session check    *)
(* and answerQuiz run in one synchronous stretch. Requests are numbered in *)
(* their order of arrival.                                                 *)
Receive(r, from, body) ==
    /\ reqs[r].pc = "idle"
    /\ \A q \in 1..(r - 1) : reqs[q].pc # "idle"
    /\ IF waQuizSessions[from] # Null
       THEN LET res == AnswerQuiz(waQuizSessions, from, body)
                sid == waQuizSessions[from].id
            IN IF res.threw
               THEN /\ reqs' = [reqs EXCEPT ![r] =
                          [pc |-> "done", status |-> 500, error |-> "TypeError"]]
                    /\ UNCHANGED <<waQuizSessions, consumed>>
               ELSE /\ waQuizSessions' = res.store
                    /\ reqs' = [reqs EXCEPT ![r] =
                          [pc |-> "send", sender |-> from, reply |-> res.message,
                           attempt |-> 0, sid |-> sid, finished |-> res.finished]]
                    /\ consumed' = IF res.finished
                                   THEN [consumed EXCEPT ![sid] = @ + 1]
                                   ELSE consumed
       ELSE /\ reqs' = [reqs EXCEPT ![r] =
                  [pc |-> "detectIntent", sender |-> from, body |-> body]]
            /\ UNCHANGED <<waQuizSessions, consumed>>
    /\ last' = [op |-> "handler"]
    /\ UNCHANGED <<nextId, startedAt>>

(* from.replace('whatsapp:', ''): the key of the server module's webhook   *)
(* and of the QUIZ_ANSWER case of whatsappWebhookHandler.                  *)
OwnerOf(from) ==
    CASE from = "whatsapp:+254700000001" -> "+254700000001"
      [] from = "whatsapp:+254700000002" -> "+254700000002"
      [] OTHER -> from

(* detectIntent has returned: the switch on the intent, up to the next     *)
(* await. The QUIZ_ANSWER case calls getActiveQuizSession, which is not    *)
(* defined in this module: a ReferenceError, caught by the handler.        *)
DetectIntentReturns(r, intent) ==
    /\ reqs[r].pc = "detectIntent"
    /\ reqs' = [reqs EXCEPT ![r] =
          CASE intent = "QUIZ_REQUEST" ->
                 [pc |-> "generateQuiz", sender |-> reqs[r].sender,
                  subject |-> ExtractSubject(reqs[r].body)]
            [] intent = "QUIZ_ANSWER" ->
                 [pc |-> "done", status |-> 500, error |-> "ReferenceError",
                  sender |-> reqs[r].sender,
                  answerPhone |-> OwnerOf(reqs[r].sender)]
            [] OTHER ->
                 [pc |-> "send", sender |-> reqs[r].sender,
                  reply |-> [kind |-> "other"], attempt |-> 0,
                  sid |-> 0, finished |-> FALSE]]
    /\ last' = [op |-> "handler"]
    /\ UNCHANGED <<waQuizSessions, nextId, consumed, startedAt>>

(* generateQuiz has returned inside startQuiz: the session is stored, and  *)
(* the handler reads questions[0] (a TypeError when there is none).        *)
GenerateQuizReturns(r, outcome) ==
    /\ reqs[r].pc = "generateQuiz"
    /\ LET phone == reqs[r].sender
           quizText == GenerateQuiz(outcome)
           questions == QuestionsOf(quizText)
           old == waQuizSessions[phone]
       IN /\ waQuizSessions' = [waQuizSessions EXCEPT ![phone] =
                 StartedSession(old, reqs[r].subject, questions, nextId + 1)]
          /\ nextId' = nextId + 1
          /\ startedAt' = [startedAt EXCEPT ![nextId + 1] = now]
          /\ reqs' = [reqs EXCEPT ![r] =
                 IF questions = <<>>
                 THEN [pc |-> "done", status |-> 500, error |-> "TypeError"]
                 ELSE [pc |-> "send", sender |-> phone,
                       reply |-> [kind |-> "question 1"],
                       attempt |-> 0, sid |-> 0, finished |-> FALSE]]
          /\ last' = [op |-> "startQuiz", phone |-> phone,
                      subject |-> reqs[r].subject, questions |-> questions,
                      generated |-> outcome.ok, threw |-> questions = <<>>,
                      replaced |-> /\ old # Null
                                   /\ old.subject # reqs[r].subject
                                   /\ old.questions # questions
                                   /\ old.answersGiven # <<>>]
    /\ UNCHANGED consumed

(* One attempt of sendWhatsAppMessageWithRetry succeeds: 200 OK. *)
SendSucceeds(r) ==
    /\ reqs[r].pc = "send"
    /\ reqs' = [reqs EXCEPT ![r] =
          [pc |-> "done", status |-> 200, error |-> "none"]]
    /\ last' = [op |-> "handler"]
    /\ UNCHANGED <<waQuizSessions, nextId, consumed, startedAt>>

(* Faulty variant: when the last attempt fails, the answer recorded last   *)
(* for the sender is taken back.                                           *)
SendFailsRollingBack(r) ==
    /\ reqs[r].pc = "send"
    /\ reqs' = [reqs EXCEPT ![r] =
          IF reqs[r].attempt = Retries
          THEN [pc |-> "done", status |-> 500, error |-> "delivery"]
          ELSE [reqs[r] EXCEPT !.attempt = @ + 1]]
    /\ waQuizSessions' =
          LET session == waQuizSessions[reqs[r].sender] IN
          IF reqs[r].attempt = Retries /\ session # Null /\ session.answersGiven # <<>>
          THEN [waQuizSessions EXCEPT ![reqs[r].sender].answersGiven =
                    SubSeq(@, 1, Len(@) - 1)]
          ELSE waQuizSessions
    /\ last' = [op |-> "handler"]
    /\ UNCHANGED <<nextId, consumed, startedAt>>

(* One attempt fails: another attempt after the backoff, or, after the     *)
(* last one, the error reaches the handler's catch: 500.                   *)
SendFails(r) ==
    /\ reqs[r].pc = "send"
    /\ reqs' = [reqs EXCEPT ![r] =
          IF reqs[r].attempt = Retries
          THEN [pc |-> "done", status |-> 500, error |-> "delivery"]
          ELSE [reqs[r] EXCEPT !.attempt = @ + 1]]
    /\ last' = [op |-> "handler"]
    /\ UNCHANGED <<waQuizSessions, nextId, consumed, startedAt>>

----------------------------------------------------------------------------
(* SpecHandler: MaxReqs webhook requests, interleaved at their awaits.     *)

Bodies == {<<" ", "b">>, <<"quiz", " ", "science">>}
Intents == {"QUIZ_REQUEST", "QUIZ_ANSWER", "HELP"}
GeneratedTexts ==
    { <<>>,
      <<Block(<<<<"b">>>>)>>,
      <<Block(<<>>), Block(<<<<"c", "A">>>>)>> }

(* What the generation call may do. *)
GenerationOutcomes == {Generated(text) : text \in GeneratedTexts} \cup {GenerationFailed}

atomicVars == <<now, quizSessions, ended>>

HandlerSenders == {"whatsapp:+254700000001"}

NextHandler ==
    \/ /\ \E r \in 1..MaxReqs, from \in HandlerSenders, body \in Bodies :
              Receive(r, from, body)
       /\ UNCHANGED <<atomicVars, parseVars>>
    \/ /\ \E r \in 1..MaxReqs, intent \in Intents : DetectIntentReturns(r, intent)
       /\ UNCHANGED <<atomicVars, parseVars>>
    \/ /\ \E r \in 1..MaxReqs, outcome \in GenerationOutcomes :
              GenerateQuizReturns(r, outcome)
       /\ UNCHANGED <<atomicVars, parseVars>>
    \/ /\ \E r \in 1..MaxReqs : SendSucceeds(r)
       /\ UNCHANGED <<atomicVars, parseVars>>
    \/ /\ \E r \in 1..MaxReqs : SendFails(r)
       /\ UNCHANGED <<atomicVars, parseVars>>

SpecHandler == Init /\ [][NextHandler]_vars

(* C8: no double consumption under interleaving. However the requests of   *)
(* one sender interleave at their awaits, a session is finished (graded to *)
(* completion and deleted) by at most one request: the live-session check  *)
(* and answerQuiz run without an await between them, and a finished        *)
(* session is gone from the store before any other request can look.       *)
C8_NoDoubleConsumption ==
    /\ \A id \in 1..MaxReqs : consumed[id] <= 1
    /\ \A p \in Senders :
          waQuizSessions[p] # Null => consumed[waQuizSessions[p].id] = 0
    /\ \A r1, r2 \in 1..MaxReqs :
          (/\ r1 # r2
           /\ reqs[r1].pc = "send" /\ reqs[r2].pc = "send"
           /\ reqs[r1].finished /\ reqs[r2].finished) =>
              reqs[r1].sid # reqs[r2].sid

(* Two requests of one sender in flight at once, both having answered the  *)
(* same session; one of them finished it.                                  *)
C8_Witness ==
    \E r1, r2 \in 1..MaxReqs :
        /\ r1 # r2
        /\ reqs[r1].pc = "send" /\ reqs[r2].pc = "send"
        /\ reqs[r1].sender = reqs[r2].sender
        /\ reqs[r1].sid > 0 /\ reqs[r1].sid = reqs[r2].sid
        /\ reqs[r1].finished /\ ~reqs[r2].finished
        /\ consumed[reqs[r1].sid] = 1
        /\ waQuizSessions[reqs[r1].sender] = Null

----------------------------------------------------------------------------
(* SpecCreate: session creation in both stores. createQuizSession is       *)
(* called for one owner; quiz requests of one sender run through           *)
(* whatsappWebhookHandler and overlap, so that startQuiz finds a session   *)
(* another request stored, and answered, in the meantime.                  *)

CreateIntents == {"QUIZ_REQUEST"}
CreateTexts == {<<Block(<<<<"b">>>>)>>, <<Block(<<>>), Block(<<<<"c", "A">>>>)>>}

NextCreate ==
    \/ /\ \E subject \in Subjects, correctAnswers \in StoreKeys, skew \in CreateSkew :
              CreateQuizSession(GradeOwner, subject, "quizText", correctAnswers, skew)
       /\ UNCHANGED <<parseVars, handlerVars>>
    \/ /\ \E r \in 1..MaxReqs, from \in HandlerSenders, body \in Bodies :
              Receive(r, from, body)
       /\ UNCHANGED <<atomicVars, parseVars>>
    \/ /\ \E r \in 1..MaxReqs, intent \in CreateIntents : DetectIntentReturns(r, intent)
       /\ UNCHANGED <<atomicVars, parseVars>>
    \/ /\ \E r \in 1..MaxReqs, quizText \in CreateTexts :
              GenerateQuizReturns(r, Generated(quizText))
       /\ UNCHANGED <<atomicVars, parseVars>>
    \/ /\ \E r \in 1..MaxReqs : SendSucceeds(r)
       /\ UNCHANGED <<atomicVars, parseVars>>

SpecCreate == Init /\ [][NextCreate]_vars

(* C4: create overwrites. Right after createQuizSession, or startQuiz,     *)
(* for an owner, the store's entry for that owner is exactly the new       *)
(* session: the new subject, the new key or questions, fresh progress and  *)
(* a fresh expiry, whatever session the owner had before.                  *)
C4_CreateOverwrites ==
    /\ (last.op = "createQuizSession") =>
          quizSessions[last.phone] =
              [subject |-> last.subject, quizText |-> last.quizText,
               correctAnswers |-> last.correctAnswers,
               createdAt |-> last.at, expiresAt |-> last.at2 + TTL]
    /\ (last.op = "startQuiz") =>
          /\ waQuizSessions[last.phone].subject = last.subject
          /\ waQuizSessions[last.phone].questions = last.questions
          /\ waQuizSessions[last.phone].answersGiven = <<>>
          /\ DOMAIN waQuizSessions[last.phone] =
                 {"subject", "questions", "answersGiven", "id"}

(* startQuiz has just replaced a session that differed in subject and      *)
(* questions and had an answer recorded, and the atomic store holds a      *)
(* session stored by a later createQuizSession over an earlier one.        *)
C4_Witness ==
    /\ last.op = "startQuiz" /\ last.replaced
    /\ quizSessions[GradeOwner] # Null
    /\ quizSessions[GradeOwner].createdAt = 1

----------------------------------------------------------------------------
(* Claims on quiz generation, checked under SpecHandler *)

(* C13: generation fallback. When the generation call fails, generateQuiz  *)
(* does not raise: it returns the fixed text, startQuiz stores a session   *)
(* of exactly 3 questions, each with one key letter of A-D (a key of       *)
(* length 3), and the handler goes on to send the first question.          *)
C13_GenerationFallback ==
    (last.op = "startQuiz" /\ ~last.generated) =>
        /\ ~last.threw
        /\ last.questions = QuestionsOf(FallbackQuizText)
        /\ waQuizSessions[last.phone] # Null
        /\ Len(waQuizSessions[last.phone].questions) = 3
        /\ \A i \in 1..Len(waQuizSessions[last.phone].questions) :
              waQuizSessions[last.phone].questions[i].answer \in LettersAD

(* The generation call has failed and the session of the fixed quiz is     *)
(* stored, its request about to send the first question.                   *)
C13_Witness ==
    /\ last.op = "startQuiz" /\ ~last.generated
    /\ Len(waQuizSessions[last.phone].questions) = 3
    /\ \E r \in 1..MaxReqs :
          reqs[r].pc = "send" /\ reqs[r].reply = [kind |-> "question 1"]

----------------------------------------------------------------------------
(* SpecKey: the answer keys of stored sessions. createQuizSession is given *)
(* a text generateQuiz can return and the key extractCorrectAnswers reads  *)
(* from that text; quiz requests run through whatsappWebhookHandler.       *)

(* The questions of a text: its pieces after each "Question N: ". *)
QuestionCount(quizText) == Len(quizText)

NextKey ==
    \/ /\ \E outcome \in GenerationOutcomes :
              CreateQuizSession(GradeOwner, "Math", GenerateQuiz(outcome),
                                ExtractCorrectAnswers(GenerateQuiz(outcome)), 0)
       /\ UNCHANGED <<parseVars, handlerVars>>
    \/ /\ \E r \in 1..MaxReqs, from \in HandlerSenders, body \in Bodies :
              Receive(r, from, body)
       /\ UNCHANGED <<atomicVars, parseVars>>
    \/ /\ \E r \in 1..MaxReqs, intent \in CreateIntents : DetectIntentReturns(r, intent)
       /\ UNCHANGED <<atomicVars, parseVars>>
    \/ /\ \E r \in 1..MaxReqs, outcome \in GenerationOutcomes :
              GenerateQuizReturns(r, outcome)
       /\ UNCHANGED <<atomicVars, parseVars>>
    \/ /\ \E r \in 1..MaxReqs : SendSucceeds(r)
       /\ UNCHANGED <<atomicVars, parseVars>>

SpecKey == Init /\ [][NextKey]_vars

(* C12: in every reachable state, every stored session has an answer key   *)
(* with exactly one letter per question: in the atomic store the key is as *)
(* long as the text has questions, in the incremental store every question *)
(* carries one letter of A-D, whatever text the generator returned.        *)
C12_KeyLength ==
    /\ \A p \in Owners :
          quizSessions[p] # Null =>
              Len(quizSessions[p].correctAnswers) = QuestionCount(quizSessions[p].quizText)
    /\ \A p \in Senders :
          waQuizSessions[p] # Null =>
              \A i \in 1..Len(waQuizSessions[p].questions) :
                  waQuizSessions[p].questions[i].answer \in LettersAD

----------------------------------------------------------------------------
(* SpecAnswer: startQuiz and answerQuiz called for one sender, one call at *)
(* a time, while the wall clock advances.                                  *)

(* startQuiz(phoneNumber, subject), from its call to its return. *)
StartQuiz(phone, subject, outcome) ==
    /\ nextId < MaxReqs
    /\ LET questions == QuestionsOf(GenerateQuiz(outcome))
           old == waQuizSessions[phone]
       IN /\ waQuizSessions' = [waQuizSessions EXCEPT ![phone] =
                 StartedSession(old, subject, questions, nextId + 1)]
          /\ last' = [op |-> "startQuiz", phone |-> phone, subject |-> subject,
                      questions |-> questions, generated |-> outcome.ok,
                      threw |-> FALSE, replaced |-> old # Null]
    /\ nextId' = nextId + 1
    /\ startedAt' = [startedAt EXCEPT ![nextId + 1] = now]
    /\ UNCHANGED <<reqs, consumed>>

(* answerQuiz(phoneNumber, answer): the call and what it returned. *)
AnswerQuizCall(phone, answer) ==
    LET pre == waQuizSessions[phone]
        res == AnswerQuiz(waQuizSessions, phone, answer)
    IN /\ waQuizSessions' = res.store
       /\ consumed' = IF pre # Null /\ ~res.threw /\ res.finished
                       THEN [consumed EXCEPT ![pre.id] = @ + 1]
                       ELSE consumed
       /\ last' = [op |-> "answerQuiz", phone |-> phone, answer |-> answer,
                   at |-> now, pre |-> pre,
                   ret |-> [f \in DOMAIN res \ {"store"} |-> res[f]]]
       /\ UNCHANGED <<reqs, nextId, startedAt>>

AnswerSender == "whatsapp:+254700000001"

(* The reply bodies handed to answerQuiz. *)
AnswerBodies == {<<"b">>, <<" ", "b">>, <<"A">>, <<"a", " ">>, <<"c">>}

NextAnswer ==
    \/ /\ \E outcome \in GenerationOutcomes : StartQuiz(AnswerSender, "Math", outcome)
       /\ UNCHANGED <<atomicVars, parseVars>>
    \/ /\ \E answer \in AnswerBodies : AnswerQuizCall(AnswerSender, answer)
       /\ UNCHANGED <<atomicVars, parseVars>>
    \/ /\ ClockForward
       /\ UNCHANGED <<parseVars, handlerVars>>

SpecAnswer == Init /\ [][NextAnswer]_vars

(* C16: incremental mode respects the fixed TTL. An answer to a session    *)
(* with a question left, arriving 30 minutes or more after startQuiz       *)
(* stored the session, is rejected with an expiry-specific error and is    *)
(* not appended to answersGiven.                                           *)
C16_IncrementalTtl ==
    (/\ last.op = "answerQuiz" /\ last.pre # Null
     /\ Len(last.pre.answersGiven) < Len(last.pre.questions)
     /\ last.at >= startedAt[last.pre.id] + TTL) =>
        /\ "message" \in DOMAIN last.ret
        /\ last.ret.message = [kind |-> "expired"]
        /\ \/ waQuizSessions[last.phone] = Null
           \/ waQuizSessions[last.phone].answersGiven = last.pre.answersGiven

(* C17: incremental completion. answerQuiz reports the quiz finished       *)
(* exactly when the answer it appends is the last question's, and the      *)
(* score it reports then is the number of answers whose feedback said      *)
(* correct.                                                                *)
C17_IncrementalCompletion ==
    (last.op = "answerQuiz" /\ last.pre # Null /\ ~last.ret.threw) =>
        LET before == last.pre.answersGiven
            saidCorrect == Cardinality({i \in 1..Len(before) : before[i].judged})
                               + (IF last.ret.isCorrect THEN 1 ELSE 0)
        IN /\ last.ret.finished <=> (Len(before) + 1 = Len(last.pre.questions))
           /\ last.ret.finished => last.ret.totalCorrect = saidCorrect

----------------------------------------------------------------------------
(* Claims on answer routing, checked under SpecHandler *)

(* C15: answer routing. When a sender with a live session sends a message, *)
(* the handler grades it against that session, consumes the session and    *)
(* replies with the scored report.                                         *)
C15_AnswerRouting ==
    \A r \in 1..MaxReqs :
        (reqs[r].pc = "send" /\ reqs[r].sid > 0) =>
            /\ reqs[r].finished
            /\ reqs[r].reply = [kind |-> "feedback and score"]
            /\ consumed[reqs[r].sid] = 1

(* C18: recoverable errors are reported as chat text. A request classified *)
(* QUIZ_ANSWER does not fail: it never ends in the handler's catch with    *)
(* the error of the QUIZ_ANSWER case and no reply sent.                    *)
C18_RecoverableAsChatText ==
    \A r \in 1..MaxReqs :
        reqs[r].pc = "done" =>
            ~(reqs[r].status = 500 /\ reqs[r].error = "ReferenceError")

----------------------------------------------------------------------------
(* The server module's webhook, app.post('/webhook/whatsapp'). It sends    *)
(* with sendWhatsAppMessage: one attempt, no retry.                        *)

(* The handler up to its first await: the empty-message reply, or the call *)
(* of detectIntent.                                                        *)
ServerReceive(r, from, body) ==
    /\ reqs[r].pc = "idle"
    /\ \A q \in 1..(r - 1) : reqs[q].pc # "idle"
    /\ reqs' = [reqs EXCEPT ![r] =
          IF body = <<>>
          THEN [pc |-> "srvSend", from |-> from,
                response |-> [kind |-> "empty message"]]
          ELSE [pc |-> "srvDetectIntent", from |-> from, body |-> body]]
    /\ last' = [op |-> "handler"]
    /\ UNCHANGED <<waQuizSessions, nextId, consumed, startedAt>>

(* detectIntent has returned: the switch. It has no QUIZ_ANSWER case, so   *)
(* that label takes the default branch with HELP.                          *)
ServerDetectIntentReturns(r, intent) ==
    /\ reqs[r].pc = "srvDetectIntent"
    /\ reqs' = [reqs EXCEPT ![r] =
          IF intent = "QUIZ_REQUEST"
          THEN [pc |-> "srvGenerateQuiz", from |-> reqs[r].from,
                subject |-> ExtractSubject(reqs[r].body)]
          ELSE [pc |-> "srvSend", from |-> reqs[r].from,
                response |-> [kind |-> "help"]]]
    /\ last' = [op |-> "handler"]
    /\ UNCHANGED <<waQuizSessions, nextId, consumed, startedAt>>

(* generateQuiz has returned: the text is wrapped and becomes the reply. *)
ServerGenerateQuizReturns(r, outcome) ==
    /\ reqs[r].pc = "srvGenerateQuiz"
    /\ reqs' = [reqs EXCEPT ![r] =
          [pc |-> "srvSend", from |-> reqs[r].from,
           response |-> [kind |-> "quiz text", subject |-> reqs[r].subject,
                         questions |-> QuestionCount(GenerateQuiz(outcome))]]]
    /\ last' = [op |-> "handler"]
    /\ UNCHANGED <<waQuizSessions, nextId, consumed, startedAt>>

(* sendWhatsAppMessage resolves: 200 OK. *)
ServerSendSucceeds(r) ==
    /\ reqs[r].pc = "srvSend"
    /\ reqs' = [reqs EXCEPT ![r] = [pc |-> "done", status |-> 200, error |-> "none"]]
    /\ last' = [op |-> "handler"]
    /\ UNCHANGED <<waQuizSessions, nextId, consumed, startedAt>>

(* sendWhatsAppMessage rejects: the catch logs, then sends the sender an   *)
(* error message.                                                          *)
ServerSendFails(r) ==
    /\ reqs[r].pc = "srvSend"
    /\ reqs' = [reqs EXCEPT ![r] =
          [pc |-> "srvSendError", from |-> reqs[r].from, deliveryFailed |-> TRUE]]
    /\ last' = [op |-> "handler"]
    /\ UNCHANGED <<waQuizSessions, nextId, consumed, startedAt>>

(* Faulty variant: no inner try around the send of the error message; a    *)
(* rejected send ends the handler before res.status(500).                  *)
ServerErrorSendSettlesUncaught(r, delivered) ==
    /\ reqs[r].pc = "srvSendError"
    /\ reqs' = [reqs EXCEPT ![r] =
          IF delivered
          THEN [pc |-> "done", status |-> 500, error |-> "delivery"]
          ELSE [pc |-> "rejected"]]
    /\ last' = [op |-> "handler"]
    /\ UNCHANGED <<waQuizSessions, nextId, consumed, startedAt>>

(* The send of the error message has settled, either way: 500. *)
ServerErrorSendSettles(r, delivered) ==
    /\ reqs[r].pc = "srvSendError"
    /\ reqs' = [reqs EXCEPT ![r] = [pc |-> "done", status |-> 500, error |-> "delivery"]]
    /\ last' = [op |-> "handler"]
    /\ UNCHANGED <<waQuizSessions, nextId, consumed, startedAt>>

----------------------------------------------------------------------------
(* SpecServer: MaxReqs requests to the server module's webhook,            *)
(* interleaved at their awaits.                                            *)

ServerBodies == {<<>>, <<"quiz", " ", "science">>, <<"A", " ", "b">>}

NextServer ==
    \/ /\ \E r \in 1..MaxReqs, from \in Senders, body \in ServerBodies :
              ServerReceive(r, from, body)
       /\ UNCHANGED <<atomicVars, parseVars>>
    \/ /\ \E r \in 1..MaxReqs, intent \in Intents : ServerDetectIntentReturns(r, intent)
       /\ UNCHANGED <<atomicVars, parseVars>>
    \/ /\ \E r \in 1..MaxReqs, outcome \in GenerationOutcomes :
              ServerGenerateQuizReturns(r, outcome)
       /\ UNCHANGED <<atomicVars, parseVars>>
    \/ /\ \E r \in 1..MaxReqs : ServerSendSucceeds(r)
       /\ UNCHANGED <<atomicVars, parseVars>>
    \/ /\ \E r \in 1..MaxReqs : ServerSendFails(r)
       /\ UNCHANGED <<atomicVars, parseVars>>
    \/ /\ \E r \in 1..MaxReqs, delivered \in BOOLEAN : ServerErrorSendSettles(r, delivered)
       /\ UNCHANGED <<atomicVars, parseVars>>

SpecServer == Init /\ [][NextServer]_vars

(* C14: a quiz request creates a session. At the step where a handler has  *)
(* the generated quiz and starts to send it, a session for the sender is   *)
(* in that handler's session store.                                        *)
C14_QuizRequestCreatesSession ==
    [][\A r \in 1..MaxReqs :
          /\ (reqs[r].pc = "generateQuiz" /\ reqs'[r].pc = "send") =>
                 waQuizSessions'[reqs'[r].sender] # Null
          /\ (reqs[r].pc = "srvGenerateQuiz" /\ reqs'[r].pc = "srvSend") =>
                 quizSessions'[OwnerOf(reqs'[r].from)] # Null]_vars

(* C20: delivery failure is not shown to the user. Once the delivery of a  *)
(* request's reply has failed, the handler sends nothing more for that     *)
(* request.                                                                *)
C20_NoSendAfterDeliveryFailure ==
    \A r \in 1..MaxReqs :
        reqs[r].pc = "srvSendError" => ~reqs[r].deliveryFailed

----------------------------------------------------------------------------
(* SpecHandlerLive: SpecHandler, with every call other than the generation *)
(* call settling: detectIntent returns, and each send attempt succeeds or  *)
(* fails. generateQuiz awaits the generation call with no timer, so        *)
(* nothing makes GenerateQuizReturns happen.                               *)

FairHandler ==
    \A r \in 1..MaxReqs :
        /\ WF_vars(/\ \E intent \in Intents : DetectIntentReturns(r, intent)
                   /\ UNCHANGED <<atomicVars, parseVars>>)
        /\ WF_vars(/\ SendSucceeds(r) \/ SendFails(r)
                   /\ UNCHANGED <<atomicVars, parseVars>>)

SpecHandlerLive == Init /\ [][NextHandler]_vars /\ FairHandler

(* C19: bounded generation. A quiz request waiting for generateQuiz does   *)
(* not wait forever: its session is stored and its handler goes on to      *)
(* reply (or to end).                                                      *)
C19_BoundedGeneration ==
    \A r \in 1..MaxReqs :
        (reqs[r].pc = "generateQuiz") ~> (reqs[r].pc \in {"send", "done"})

(* Every request that is not waiting for the generation call does end. *)
OtherRequestsEnd ==
    \A r \in 1..MaxReqs :
        (reqs[r].pc \in {"detectIntent", "send"}) ~>
            (reqs[r].pc \in {"generateQuiz", "done"})

----------------------------------------------------------------------------
(* Claims on overlapping requests, checked under SpecHandler *)

(* C21: no stale read-then-write across a suspension. A request saw no     *)
(* session for its sender before it awaited detectIntent and generateQuiz; *)
(* at the step where its startQuiz writes the sender's entry, the sender   *)
(* still has no session, so nothing another request stored or advanced in  *)
(* the meantime is overwritten.                                            *)
C21_NoStaleWrite ==
    [][\A r \in 1..MaxReqs :
          (reqs[r].pc = "generateQuiz" /\ reqs'[r].pc # "generateQuiz") =>
              waQuizSessions[reqs[r].sender] = Null]_vars

----------------------------------------------------------------------------
(* detectIntent when the classification call has failed: the catch block.  *)
(* A text is a sequence of characters; a keyword the rules look for is one *)
(* element, and holds a character that is no digit, no letter a-d and no   *)
(* whitespace.                                                             *)

IntentLabels ==
    {"REGISTER_STUDENT", "REGISTER_TEACHER", "REGISTER_PARENT",
     "CHECK_PERFORMANCE", "QUIZ_REQUEST", "QUIZ_ANSWER", "RECORD_GRADES",
     "CLASS_STATS", "HELP"}

(* msg.replace(/\s+/g, ' ') *)
RECURSIVE CollapseWhitespace(_)
CollapseWhitespace(msg) ==
    IF msg = <<>> THEN <<>>
    ELSE IF Head(msg) \in Whitespace
         THEN <<" ">> \o CollapseWhitespace(TrimStart(Tail(msg)))
         ELSE <<Head(msg)>> \o CollapseWhitespace(Tail(msg))

(* The index after the run of whitespace that starts at i. *)
RECURSIVE WhitespaceRunEnd(_, _)
WhitespaceRunEnd(msg, i) ==
    IF i <= Len(msg) /\ msg[i] \in Whitespace
    THEN WhitespaceRunEnd(msg, i + 1) ELSE i

(* How many groups of digits, a letter a-d and optional whitespace cover   *)
(* msg from index i to its end, -1 when they do not cover it.              *)
RECURSIVE NumberedGroups(_, _)
NumberedGroups(msg, i) ==
    IF i > Len(msg) THEN 0
    ELSE LET j == DigitRunEnd(msg, i) IN
         IF j = i \/ j > Len(msg) \/ ~IsAD(ToUpperCase(msg[j])) THEN -1
         ELSE LET rest == NumberedGroups(msg, WhitespaceRunEnd(msg, j + 1)) IN
              IF rest = -1 THEN -1 ELSE rest + 1

(* quizAnswerPattern: two to five groups of digits, a letter a-d and      *)
(* optional whitespace, in either case, covering the whole text.          *)
QuizAnswerPattern(msg) == NumberedGroups(msg, 1) \in 2..5

(* How many groups of whitespace and a letter a-d cover msg from index i   *)
(* to its end, -1 when they do not cover it.                               *)
RECURSIVE LetterGroups(_, _)
LetterGroups(msg, i) ==
    IF i > Len(msg) THEN 0
    ELSE LET j == WhitespaceRunEnd(msg, i) IN
         IF j = i \/ j > Len(msg) \/ ~IsAD(ToUpperCase(msg[j])) THEN -1
         ELSE LET rest == LetterGroups(msg, j + 1) IN
              IF rest = -1 THEN -1 ELSE rest + 1

(* shortAnswerPattern: a letter a-d, then one to four groups of whitespace *)
(* and a letter a-d, in either case, covering the whole text.             *)
ShortAnswerPattern(msg) ==
    /\ msg # <<>> /\ IsAD(ToUpperCase(msg[1]))
    /\ LetterGroups(msg, 2) \in 1..4

(* msg.includes(keyword) *)
Includes(msg, keyword) == keyword \in Range(msg)

(* The keyword rules, in the order of the code. *)
KeywordIntent(msg) ==
    IF Includes(msg, "register student") THEN "REGISTER_STUDENT"
    ELSE IF Includes(msg, "register teacher") THEN "REGISTER_TEACHER"
    ELSE IF Includes(msg, "register parent") THEN "REGISTER_PARENT"
    ELSE IF Includes(msg, "check") \/ Includes(msg, "performance")
         THEN "CHECK_PERFORMANCE"
    ELSE IF Includes(msg, "quiz") THEN "QUIZ_REQUEST"
    ELSE IF Includes(msg, "record grade") THEN "RECORD_GRADES"
    ELSE IF Includes(msg, "class stat") THEN "CLASS_STATS"
    ELSE "HELP"

(* Faulty variant: only the numbered pattern is tested before the keyword  *)
(* rules.                                                                  *)
DetectIntentFallbackNumberedOnly(text) ==
    LET msg == Trim(LowerText(text)) IN
    IF QuizAnswerPattern(CollapseWhitespace(msg)) THEN "QUIZ_ANSWER"
    ELSE KeywordIntent(msg)

DetectIntentFallback(text) ==
    LET msg == Trim(LowerText(text)) IN
    IF \/ QuizAnswerPattern(CollapseWhitespace(msg))
       \/ ShortAnswerPattern(CollapseWhitespace(msg))
    THEN "QUIZ_ANSWER"
    ELSE KeywordIntent(msg)

IntentChars == {"1", "2", "A", "b", "d", " ", ",", "Quiz", "check"}

IntentTexts ==
    { <<"A", " ", "C", " ", "B">>,
      <<"1", "A", " ", "2", "C", " ", "3", "B">>,
      <<"a", " ", "b", " ", "c", " ", "d", " ", "a">>,
      <<"a", " ", "b", " ", "c", " ", "d", " ", "a", " ", "b">>,
      <<"1", "a", "2", "b", "3", "c", "1", "d", "2", "a">>,
      <<"1", "a", "2", "b", "3", "c", "1", "d", "2", "a", "3", "b">>,
      <<"a", ",", " ", "c", ",", " ", "b">>,
      <<"register student", " ", "n">>,
      <<"register teacher">>,
      <<"register parent", " ", "check">>,
      <<"performance", " ", "quiz">>,
      <<"record grade", " ", "class stat">>,
      <<"class stat">> }

IntentMessages == SeqsUpTo(IntentChars, MaxLen) \cup IntentTexts

InitIntent ==
    /\ now = 0
    /\ quizSessions = [p \in Owners |-> Null]
    /\ ended = [p \in Owners |-> "no"]
    /\ last = [op |-> "none"]
    /\ InitHandlerIdle
    /\ message \in IntentMessages
    /\ parsed = <<>>

(* detectIntent(message) with generateContent rejecting. *)
DetectIntentFallbackCall ==
    /\ last.op = "none"
    /\ last' = [op |-> "detectIntent", message |-> message,
                ret |-> DetectIntentFallback(message)]
    /\ UNCHANGED <<now, quizSessions, ended, parseVars, handlerVars>>

NextIntent == DetectIntentFallbackCall

SpecIntent == InitIntent /\ [][NextIntent]_vars

(* The positions of the letters a-d, in either case, in a text. *)
LetterPositions(text) == {i \in 1..Len(text) : IsAD(ToUpperCase(text[i]))}

(* Two to five numbered answers: digits, letters a-d and whitespace only;  *)
(* every letter directly follows a digit, every digit is directly followed *)
(* by a digit or a letter, whitespace only follows a letter or whitespace. *)
IsNumberedAnswerPattern(text) ==
    LET letters == LetterPositions(text) IN
    /\ \A i \in 1..Len(text) :
          IsDigit(text[i]) \/ i \in letters \/ text[i] \in Whitespace
    /\ Cardinality(letters) \in 2..5
    /\ \A i \in letters : i > 1 /\ IsDigit(text[i - 1])
    /\ \A i \in 1..Len(text) :
          IsDigit(text[i]) =>
              i < Len(text) /\ (IsDigit(text[i + 1]) \/ (i + 1) \in letters)
    /\ \A i \in 1..Len(text) :
          text[i] \in Whitespace =>
              i > 1 /\ ((i - 1) \in letters \/ text[i - 1] \in Whitespace)

(* Two to five bare letters: letters a-d and whitespace only, no two       *)
(* letters adjacent, a letter first and last.                              *)
IsBareAnswerPattern(text) ==
    LET letters == LetterPositions(text) IN
    /\ \A i \in 1..Len(text) : i \in letters \/ text[i] \in Whitespace
    /\ Cardinality(letters) \in 2..5
    /\ 1 \in letters /\ Len(text) \in letters
    /\ \A i \in letters : i = 1 \/ text[i - 1] \in Whitespace

----------------------------------------------------------------------------
(* startQuiz on texts given line by line. A block is the sequence of its   *)
(* non-blank lines, a line the sequence of its characters; the words       *)
(* "correct answers" are one element.                                      *)

(* l.toLowerCase().startsWith('correct answers') *)
StartsWithCorrectAnswers(line) ==
    line # <<>> /\ ToLowerCase(line[1]) = "correct answers"

(* The letters of the matches of a digit, a hyphen and a letter A-D in     *)
(* either case, scanning the line from index i.                            *)
RECURSIVE PairLetters(_, _)
PairLetters(line, i) ==
    IF i + 2 > Len(line) THEN <<>>
    ELSE IF IsDigit(line[i]) /\ line[i + 1] = "-" /\ IsAD(ToUpperCase(line[i + 2]))
         THEN <<line[i + 2]>> \o PairLetters(line, i + 3)
         ELSE PairLetters(line, i + 1)

(* The block of a sequence of lines. *)
BlockOfLines(lines) ==
    LET answerLines == SelectSeq(lines, StartsWithCorrectAnswers)
    IN Block([k \in 1..Len(answerLines) |-> PairLetters(answerLines[k], 1)])

(* The text whose blocks are the given sequences of lines. *)
TextOfBlocks(blocks) == [i \in 1..Len(blocks) |-> BlockOfLines(blocks[i])]

QuizLines ==
    { <<"n">>,
      <<"correct answers", ":", " ", "1", "-", "b">>,
      <<"Correct answers", " ", "2", "-", "C", ",", "1", "-", "A">>,
      <<"correct answers", " ", "1", "B">>,
      <<" ", "correct answers", "1", "-", "D">> }

QuizBlocks ==
    {<<>>} \cup {<<l>> : l \in QuizLines}
           \cup {<<l, m>> : l \in QuizLines, m \in QuizLines}

LinedTexts ==
    {<<>>} \cup {<<b>> : b \in QuizBlocks}
           \cup {<<b, c>> : b \in QuizBlocks, c \in QuizBlocks}

InitStart ==
    /\ InitStore /\ InitHandlerIdle
    /\ message \in LinedTexts
    /\ parsed = <<>>

NextStart ==
    /\ StartQuiz(AnswerSender, "Math", Generated(TextOfBlocks(message)))
    /\ UNCHANGED <<atomicVars, parseVars>>

SpecStart == InitStart /\ [][NextStart]_vars

(* The first line of a block that begins with "correct answers", <<>> when *)
(* it has none.                                                            *)
FirstAnswerLine(lines) ==
    LET at == {k \in 1..Len(lines) : StartsWithCorrectAnswers(lines[k])}
    IN IF at = {} THEN <<>>
       ELSE lines[CHOOSE k \in at : \A j \in at : k <= j]

(* The positions in a line of the letter of a digit-hyphen-letter pair. *)
PairPositions(line) ==
    {k \in 3..Len(line) :
        /\ IsDigit(line[k - 2]) /\ line[k - 1] = "-"
        /\ IsAD(ToUpperCase(line[k]))}

(* C23: for each block of the generated text, the answer startQuiz stores  *)
(* is the upper-cased letter of the first digit-hyphen-letter pair on the  *)
(* block's first line that begins with "correct answers", and is A when    *)
(* the block has no such line or that line has no pair; every stored       *)
(* answer is one of A, B, C, D.                                            *)
C23_KeyRecovery ==
    LET session == waQuizSessions[AnswerSender] IN
    session # Null =>
        /\ Len(session.questions) = Len(message)
        /\ \A i \in 1..Len(message) :
              LET line == FirstAnswerLine(message[i])
                  pairs == PairPositions(line)
                  answer == session.questions[i].answer
              IN /\ answer \in LettersAD
                 /\ pairs = {} => answer = "A"
                 /\ pairs # {} =>
                       answer = ToUpperCase(
                           line[CHOOSE k \in pairs : \A j \in pairs : k <= j])

(* A block whose answer line lists 2-C before 1-A is stored with C; a      *)
(* block whose first answer line has no pair is stored with A.             *)
C23_Witness ==
    /\ waQuizSessions[AnswerSender] # Null
    /\ message = << << <<"n">>,
                       <<"Correct answers", " ", "2", "-", "C", ",", "1", "-", "A">> >>,
                    << <<"correct answers", " ", "1", "B">>,
                       <<"correct answers", ":", " ", "1", "-", "b">> >> >>
    /\ waQuizSessions[AnswerSender].questions[1].answer = "C"
    /\ waQuizSessions[AnswerSender].questions[2].answer = "A"

----------------------------------------------------------------------------
(* Claims on both stores *)

(* C24: every stored session, in either store, carries a creation stamp    *)
(* and an expiry stamp, and the expiry stamp is the creation stamp plus    *)
(* exactly 30 minutes.                                                     *)
C24_ExpiryStamp ==
    /\ \A p \in Owners :
          quizSessions[p] # Null =>
              quizSessions[p].expiresAt = quizSessions[p].createdAt + TTL
    /\ \A p \in Senders :
          waQuizSessions[p] # Null =>
              /\ {"createdAt", "expiresAt"} \subseteq DOMAIN waQuizSessions[p]
              /\ waQuizSessions[p].expiresAt = waQuizSessions[p].createdAt + TTL

----------------------------------------------------------------------------
(* sendWhatsAppMessageWithRetry, attempt by attempt. A call is a record of *)
(* reqs: its position, the loop counter, and as history the outcome of     *)
(* each attempt and the length of each wait, in order.                     *)

RetryCounts == {0, 2, 3}

(* 500 * Math.pow(2, attempt) *)
(* Faulty variant: the same wait after every failed attempt. *)
BackoffConstant(attempt) == 500

(* As written. *)
Backoff(attempt) == 500 * 2 ^ attempt

(* sendWhatsAppMessageWithRetry(to, message, retries) is called: the loop  *)
(* starts at attempt 0.                                                    *)
SendWithRetryCalled(r, retries) ==
    /\ reqs[r].pc = "idle"
    /\ \A q \in 1..(r - 1) : reqs[q].pc # "idle"
    /\ reqs' = [reqs EXCEPT ![r] =
           [pc |-> "attempt", retries |-> retries, attempt |-> 0,
            outcomes |-> <<>>, waits |-> <<>>]]
    /\ UNCHANGED <<last, waQuizSessions, nextId, consumed, startedAt>>

(* The awaited sendWhatsAppMessage resolves: its result is returned. *)
SendAttemptSucceeds(r) ==
    /\ reqs[r].pc = "attempt"
    /\ reqs' = [reqs EXCEPT ![r] =
           [pc |-> "returned", retries |-> reqs[r].retries,
            attempt |-> reqs[r].attempt,
            outcomes |-> Append(reqs[r].outcomes, "ok"),
            waits |-> reqs[r].waits, result |-> reqs[r].attempt]]
    /\ UNCHANGED <<last, waQuizSessions, nextId, consumed, startedAt>>

(* The awaited sendWhatsAppMessage rejects: the error is thrown on the     *)
(* last attempt, else the call starts to wait.                             *)
SendAttemptFails(r) ==
    /\ reqs[r].pc = "attempt"
    /\ reqs' = [reqs EXCEPT ![r] =
           IF reqs[r].attempt = reqs[r].retries
           THEN [pc |-> "threw", retries |-> reqs[r].retries,
                 attempt |-> reqs[r].attempt,
                 outcomes |-> Append(reqs[r].outcomes, "failed"),
                 waits |-> reqs[r].waits, lastErr |-> reqs[r].attempt]
           ELSE [pc |-> "backoff", retries |-> reqs[r].retries,
                 attempt |-> reqs[r].attempt,
                 outcomes |-> Append(reqs[r].outcomes, "failed"),
                 waits |-> Append(reqs[r].waits, Backoff(reqs[r].attempt))]]
    /\ UNCHANGED <<last, waQuizSessions, nextId, consumed, startedAt>>

(* The timer of the wait fires: the loop goes to the next attempt. *)
BackoffElapses(r) ==
    /\ reqs[r].pc = "backoff"
    /\ reqs' = [reqs EXCEPT ![r] =
           [pc |-> "attempt", retries |-> reqs[r].retries,
            attempt |-> reqs[r].attempt + 1,
            outcomes |-> reqs[r].outcomes, waits |-> reqs[r].waits]]
    /\ UNCHANGED <<last, waQuizSessions, nextId, consumed, startedAt>>

NextRetry ==
    \/ /\ \E r \in 1..MaxReqs, retries \in RetryCounts : SendWithRetryCalled(r, retries)
       /\ UNCHANGED <<atomicVars, parseVars>>
    \/ /\ \E r \in 1..MaxReqs : SendAttemptSucceeds(r)
       /\ UNCHANGED <<atomicVars, parseVars>>
    \/ /\ \E r \in 1..MaxReqs : SendAttemptFails(r)
       /\ UNCHANGED <<atomicVars, parseVars>>
    \/ /\ \E r \in 1..MaxReqs : BackoffElapses(r)
       /\ UNCHANGED <<atomicVars, parseVars>>

SpecRetry == Init /\ [][NextRetry]_vars

(* C25: a call of sendWhatsAppMessageWithRetry makes at most retries + 1   *)
(* attempts, one after the other; a successful attempt is the last one and *)
(* its result is returned; the wait after failed attempt k (from 0) is     *)
(* 500 * 2^k ms, one wait after every failed attempt but the final one;    *)
(* after the final failed attempt the call throws that attempt's error.    *)
C25_RetryBackoff ==
    \A r \in 1..MaxReqs :
        reqs[r].pc \in {"attempt", "backoff", "returned", "threw"} =>
            LET call == reqs[r]
                n == Len(call.outcomes)
            IN /\ n <= call.retries + 1
               /\ \A k \in 1..n :
                     call.outcomes[k] = "ok" => (k = n /\ call.pc = "returned")
               /\ \A k \in 1..Len(call.waits) :
                     /\ call.waits[k] = 500 * 2 ^ (k - 1)
                     /\ k <= n /\ call.outcomes[k] = "failed"
               /\ call.pc \in {"attempt", "backoff"} => Len(call.waits) = n
               /\ call.pc = "attempt" => call.attempt = n
               /\ call.pc = "returned" =>
                     /\ call.outcomes[n] = "ok"
                     /\ call.result = n - 1
                     /\ Len(call.waits) = n - 1
               /\ call.pc = "threw" =>
                     /\ n = call.retries + 1
                     /\ call.lastErr = n - 1
                     /\ Len(call.waits) = n - 1

(* One call threw after four failed attempts and waits of 500, 1000 and    *)
(* 2000 ms; another returned the result of its second attempt after one    *)
(* wait.                                                                   *)
C25_Witness ==
    \E r, q \in 1..MaxReqs :
        /\ reqs[r].pc = "threw"
        /\ reqs[r].waits = <<500, 1000, 2000>>
        /\ reqs[q].pc = "returned"
        /\ reqs[q].outcomes = <<"failed", "ok">>
        /\ reqs[q].waits = <<500>>

----------------------------------------------------------------------------
(* SpecOwners: the operations of both stores called for two owners each,   *)
(* one call at a time; the wall clock advances once, past the expiry of    *)
(* the sessions stored before.                                             *)

OwnerKeys == {<<"A">>}
OwnerAnswers == {<<>>, <<"a">>}
OwnerOutcomes == {Generated(<<Block(<<<<"b">>>>), Block(<<>>)>>)}
OwnerBodies == {<<"b">>}

NextOwners ==
    \/ /\ \E phone \in Owners, correctAnswers \in OwnerKeys :
              CreateQuizSession(phone, "Math", "quizText", correctAnswers, 0)
       /\ UNCHANGED <<parseVars, handlerVars>>
    \/ /\ \E phone \in Owners : GetActiveQuizSession(phone)
       /\ UNCHANGED <<parseVars, handlerVars>>
    \/ /\ \E phone \in Owners, userAnswers \in OwnerAnswers :
              GradeQuizAnswers(phone, userAnswers)
       /\ UNCHANGED <<parseVars, handlerVars>>
    \/ /\ \E phone \in Senders, outcome \in OwnerOutcomes :
              StartQuiz(phone, "Math", outcome)
       /\ UNCHANGED <<atomicVars, parseVars>>
    \/ /\ \E phone \in Senders, answer \in OwnerBodies : AnswerQuizCall(phone, answer)
       /\ UNCHANGED <<atomicVars, parseVars>>
    \/ /\ ClockForward /\ now' = TTL + 1000
       /\ UNCHANGED <<parseVars, handlerVars>>

SpecOwners == Init /\ [][NextOwners]_vars

(* C26: owner isolation. A step changes the atomic store's entry of an     *)
(* owner only when it is createQuizSession, getActiveQuizSession or        *)
(* gradeQuizAnswers called for that owner, and the incremental store's     *)
(* entry of a sender only when it is startQuiz or answerQuiz called for    *)
(* that sender: every operation for one owner leaves the entry of every    *)
(* other owner as it was.                                                  *)
C26_OwnerIsolation ==
    [][/\ \A p \in Owners :
             quizSessions'[p] # quizSessions[p] =>
                 /\ last'.op \in {"createQuizSession", "getActiveQuizSession",
                                  "gradeQuizAnswers"}
                 /\ last'.phone = p
       /\ \A p \in Senders :
             waQuizSessions'[p] # waQuizSessions[p] =>
                 /\ last'.op \in {"startQuiz", "answerQuiz"}
                 /\ last'.phone = p]_vars

(* One sender's last answer has deleted its session while the other sender *)
(* keeps a session with one answer recorded, and one owner's session has   *)
(* been graded and deleted while the other owner keeps its session.        *)
C26_Witness ==
    /\ last.op = "answerQuiz" /\ last.phone = "whatsapp:+254700000001"
    /\ last.ret.finished
    /\ waQuizSessions["whatsapp:+254700000001"] = Null
    /\ waQuizSessions["whatsapp:+254700000002"] # Null
    /\ Len(waQuizSessions["whatsapp:+254700000002"].answersGiven) = 1
    /\ ended["+254700000002"] = "graded"
    /\ quizSessions["+254700000002"] = Null
    /\ quizSessions["+254700000001"] # Null

----------------------------------------------------------------------------
(* Claims on the progress of an incremental session, checked under         *)
(* SpecAnswer                                                              *)

(* C27: every session startQuiz or answerQuiz leaves in the incremental    *)
(* store has fewer answers recorded than it has questions, whatever text   *)
(* the generation call returned.                                           *)
C27_AnswersBelowQuestions ==
    \A p \in Senders :
        waQuizSessions[p] # Null =>
            Len(waQuizSessions[p].answersGiven) < Len(waQuizSessions[p].questions)

(* C28: a message handed to answerQuiz while the sender has a session is   *)
(* recorded as the answer to the current question: the call returns, and   *)
(* either one entry holding the message was appended to answersGiven, or   *)
(* it was the answer to the last question and the session is deleted. A    *)
(* session of n questions is so deleted by its n-th message.               *)
C28_IncrementalProgress ==
    (last.op = "answerQuiz" /\ last.pre # Null) =>
        LET post == waQuizSessions[last.phone]
            n == Len(last.pre.answersGiven)
        IN /\ ~last.ret.threw
           /\ IF n + 1 = Len(last.pre.questions)
              THEN last.ret.finished /\ post = Null
              ELSE /\ ~last.ret.finished
                   /\ post # Null
                   /\ post.questions = last.pre.questions
                   /\ Len(post.answersGiven) = n + 1
                   /\ SubSeq(post.answersGiven, 1, n) = last.pre.answersGiven
                   /\ post.answersGiven[n + 1].given = last.answer

----------------------------------------------------------------------------
(* Claims on delivery and on the owner key, checked under SpecHandler      *)

(* C29: the answer state is committed before delivery. At the step where a *)
(* request that found a live session goes on to send the feedback, the     *)
(* store already holds what answerQuiz did: one more answer recorded, or   *)
(* the session deleted. No later step of that request's delivery, failed   *)
(* attempts and the final failure included, changes the store, and the     *)
(* final failure ends the request with a 500.                              *)
C29_CommitBeforeDelivery ==
    [][\A r \in 1..MaxReqs :
          /\ (reqs[r].pc = "idle" /\ reqs'[r].pc = "send") =>
                LET pre == waQuizSessions[reqs'[r].sender]
                    post == waQuizSessions'[reqs'[r].sender]
                IN /\ pre # Null
                   /\ IF reqs'[r].finished
                      THEN post = Null /\ consumed'[pre.id] = consumed[pre.id] + 1
                      ELSE /\ post # Null
                           /\ Len(post.answersGiven) = Len(pre.answersGiven) + 1
          /\ (reqs[r].pc = "send" /\ reqs[r].sid > 0 /\ reqs'[r] # reqs[r]) =>
                /\ waQuizSessions' = waQuizSessions
                /\ consumed' = consumed
                /\ (reqs[r].attempt = Retries /\ reqs'[r].status # 200) =>
                      reqs'[r] = [pc |-> "done", status |-> 500, error |-> "delivery"]
      ]_vars

(* The first request stored a session and was answered with 200; the       *)
(* second recorded an answer and ended with 500 after its delivery failed; *)
(* the session still holds that answer.                                    *)
C29_Witness ==
    /\ reqs[1] = [pc |-> "done", status |-> 200, error |-> "none"]
    /\ reqs[2] = [pc |-> "done", status |-> 500, error |-> "delivery"]
    /\ reqs[3].pc = "idle"
    /\ nextId = 1
    /\ \E p \in HandlerSenders :
          /\ waQuizSessions[p] # Null
          /\ Len(waQuizSessions[p].answersGiven) = 1

(* C30: one owner key. The key with which the QUIZ_ANSWER branch looks the *)
(* session up is the key under which a quiz request of the same sender     *)
(* stores it and under which the live-session test finds it.               *)
C30_ConsistentOwnerKey ==
    \A r \in 1..MaxReqs :
        (reqs[r].pc = "done" /\ reqs[r].error = "ReferenceError") =>
            reqs[r].answerPhone = reqs[r].sender

----------------------------------------------------------------------------
(* SpecWebhooks: MaxReqs requests of one sender, each to either webhook,   *)
(* whatsappWebhookHandler or the server module's, interleaved at their     *)
(* awaits.                                                                 *)

WebhookBodies == {<<>>, <<"quiz", " ", "science">>}
WebhookOutcomes == {Generated(<<>>), Generated(<<Block(<<<<"b">>>>)>>)}

NextWebhooks ==
    \/ /\ \E r \in 1..MaxReqs, from \in HandlerSenders :
              Receive(r, from, <<"b">>)
       /\ UNCHANGED <<atomicVars, parseVars>>
    \/ /\ \E r \in 1..MaxReqs, intent \in Intents : DetectIntentReturns(r, intent)
       /\ UNCHANGED <<atomicVars, parseVars>>
    \/ /\ \E r \in 1..MaxReqs, outcome \in WebhookOutcomes :
              GenerateQuizReturns(r, outcome)
       /\ UNCHANGED <<atomicVars, parseVars>>
    \/ /\ \E r \in 1..MaxReqs : SendSucceeds(r)
       /\ UNCHANGED <<atomicVars, parseVars>>
    \/ /\ \E r \in 1..MaxReqs : SendFails(r)
       /\ UNCHANGED <<atomicVars, parseVars>>
    \/ /\ \E r \in 1..MaxReqs, from \in HandlerSenders, body \in WebhookBodies :
              ServerReceive(r, from, body)
       /\ UNCHANGED <<atomicVars, parseVars>>
    \/ /\ \E r \in 1..MaxReqs, intent \in Intents : ServerDetectIntentReturns(r, intent)
       /\ UNCHANGED <<atomicVars, parseVars>>
    \/ /\ \E r \in 1..MaxReqs, outcome \in WebhookOutcomes :
              ServerGenerateQuizReturns(r, outcome)
       /\ UNCHANGED <<atomicVars, parseVars>>
    \/ /\ \E r \in 1..MaxReqs : ServerSendSucceeds(r)
       /\ UNCHANGED <<atomicVars, parseVars>>
    \/ /\ \E r \in 1..MaxReqs : ServerSendFails(r)
       /\ UNCHANGED <<atomicVars, parseVars>>
    \/ /\ \E r \in 1..MaxReqs, delivered \in BOOLEAN : ServerErrorSendSettles(r, delivered)
       /\ UNCHANGED <<atomicVars, parseVars>>

SpecWebhooks == Init /\ [][NextWebhooks]_vars

(* The positions at which a request waits for an awaited call. *)
AwaitPcs ==
    {"detectIntent", "generateQuiz", "send",
     "srvDetectIntent", "srvGenerateQuiz", "srvSend", "srvSendError"}

(* C31: exactly one HTTP response per webhook request. After every step, a *)
(* request is not yet received, or waits for an awaited call with no       *)
(* response sent, or has been answered; the step that answers it sends one *)
(* status, 200 when the delivery of the reply succeeded and 500 when an    *)
(* exception reached the catch; an answered request takes no further step, *)
(* so no second response is sent.                                          *)
C31_OneResponse ==
    [][\A r \in 1..MaxReqs :
          /\ reqs[r].pc = "done" => reqs'[r] = reqs[r]
          /\ reqs'[r].pc \in {"idle", "done"} \cup AwaitPcs
          /\ reqs'[r].pc # "done" => "status" \notin DOMAIN reqs'[r]
          /\ (reqs[r].pc # "done" /\ reqs'[r].pc = "done") =>
                /\ reqs'[r].status \in {200, 500}
                /\ reqs'[r].status = 200 <=>
                      (reqs[r].pc \in {"send", "srvSend"} /\ reqs'[r].error = "none")
                /\ reqs'[r].status = 500 <=>
                      reqs'[r].error \in {"TypeError", "ReferenceError", "delivery"}
      ]_vars

(* Three requests have been answered: one with 200, one with 500 after a   *)
(* failed delivery, one with 500 after an exception in the switch.         *)
C31_Witness ==
    \E a, b, c \in 1..MaxReqs :
        /\ reqs[a] = [pc |-> "done", status |-> 200, error |-> "none"]
        /\ reqs[b] = [pc |-> "done", status |-> 500, error |-> "delivery"]
        /\ reqs[c].pc = "done" /\ reqs[c].status = 500
        /\ reqs[c].error = "ReferenceError"

====
